---- MODULE Spec2Model ----
(***************************************************************************)
(* Model of toil_vg/vg_config.py: make_opts_list (the option normalizer)   *)
(* and apply_config_file_args (config loading, validation and the merge    *)
(* of the parsed command line over the parsed configuration).              *)
(*                                                                         *)
(* Text is a sequence of lexical items: an item is one separator character *)
(* (space, tab, newline) or one blank-free chunk ("-t", "--threads", "4"). *)
(* A token (a Python str without the split separator) is the sequence of   *)
(* the items it is made of; a key is the sequence of its words and of the  *)
(* "-" / "_" characters between them.                                      *)
(***************************************************************************)
EXTENDS Integers, Sequences, FiniteSets, TLC

VARIABLES args, heap, fs, ncalls, outcome, base, options, results,
          args0, heap0, x_opts, opts_list, mpc

vars == <<args, heap, fs, ncalls, outcome, base, options, results,
          args0, heap0, x_opts, opts_list, mpc>>

resolverVars == <<args, heap, fs, ncalls, outcome, base, options, results,
                  args0, heap0>>

normalizerVars == <<x_opts, opts_list, mpc>>

(* ---------------------------- bounds ----------------------------------- *)
MaxLen == 5
MaxCliLen == 3
MaxMore == 1
MaxCalls == 2

(* ---------------------------- values ----------------------------------- *)
\* A Python value: None, bool, int, str, list of str, or a reference to a
\* list object on the heap (the list of more_mpmap_opts, mutated in place).
Val(k, n, t, l) == [kind |-> k, num |-> n, text |-> t, toks |-> l]
None == Val("none", 0, <<>>, <<>>)
BoolV(b) == Val("bool", IF b THEN 1 ELSE 0, <<>>, <<>>)
IntV(n) == Val("int", n, <<>>, <<>>)
StrV(t) == Val("str", 0, t, <<>>)
ListV(l) == Val("list", 0, <<>>, l)
Ref(a) == Val("ref", a, <<>>, <<>>)
Absent == Val("absent", 0, <<>>, <<>>)

\* Python truthiness of a value (heap h holds the referenced lists).
Truthy_ListAlways(v, h) ==
    CASE v.kind = "none" -> FALSE
      [] v.kind = "bool" -> v.num = 1
      [] v.kind = "int" -> v.num # 0
      [] v.kind = "str" -> v.text # <<>>
      [] v.kind = "list" -> TRUE
      [] OTHER -> TRUE

Truthy(v, h) ==
    CASE v.kind = "none" -> FALSE
      [] v.kind = "bool" -> v.num = 1
      [] v.kind = "int" -> v.num # 0
      [] v.kind = "str" -> v.text # <<>>
      [] v.kind = "list" -> v.toks # <<>>
      [] OTHER -> Len(h[v.num]) > 0

(* ------------------------- make_opts_list ------------------------------ *)
Tok(s) == <<s>>
ThreadFlags == <<Tok("-t"), Tok("--threads")>>

\* str.split(sep): the pieces between occurrences of the one-character
\* separator, empty pieces included.
RECURSIVE split(_, _)
split(s, sep) ==
    IF \A i \in 1..Len(s) : s[i] # sep
    THEN <<s>>
    ELSE LET p == CHOOSE i \in 1..Len(s) :
                      s[i] = sep /\ \A j \in 1..(i - 1) : s[j] # sep
         IN <<SubSeq(s, 1, p - 1)>> \o split(SubSeq(s, p + 1, Len(s)), sep)

\* if t in opts_list: pos = opts_list.index(t); del opts_list[pos:pos+2]
DelFlag(l, t) ==
    IF \E i \in 1..Len(l) : l[i] = t
    THEN LET pos == CHOOSE i \in 1..Len(l) :
                        l[i] = t /\ \A j \in 1..(i - 1) : l[j] # t
         IN SubSeq(l, 1, pos - 1) \o SubSeq(l, pos + 2, Len(l))
    ELSE l

make_opts_list_NoFilter(x) ==
    DelFlag(DelFlag(split(x, " "), ThreadFlags[1]), ThreadFlags[2])

make_opts_list(x) ==
    LET filtered == SelectSeq(split(x, " "), LAMBDA a : Len(a) > 0)
    IN DelFlag(DelFlag(filtered, ThreadFlags[1]), ThreadFlags[2])

(* ------------------------------ keys ----------------------------------- *)
Opt(name) == <<name, "_", "opts">>
SeqOpts == {Opt(n) : n \in {"map", "call", "filter", "genotype", "vcfeval",
                            "sim", "bwa", "kmers", "gcsa", "mpmap", "augment"}}
k_config == <<"config">>
k_whole_genome_config == <<"whole", "_", "genome", "_", "config">>
k_more_mpmap_opts == <<"more", "_", "mpmap", "_", "opts">>
k_reads_per_chunk == <<"reads", "_", "per", "_", "chunk">>
k_prune_opts_2 == <<"prune", "_", "opts", "_", "2">>
k_gcsa_opts == Opt("gcsa")

\* x.replace(old, new) on a key
replace(x, old, new) == [i \in DOMAIN x |-> IF x[i] = old THEN new ELSE x[i]]
Hyphen(k) == replace(k, "_", "-")

\* A mapping built from <<key, value>> pairs, leaving out the Absent ones.
MkMap(pairs) ==
    LET present == {i \in DOMAIN pairs : pairs[i][2].kind # "absent"}
    IN [k \in {pairs[i][1] : i \in present} |->
           pairs[CHOOSE i \in present : pairs[i][1] = k][2]]

(* ----------------------------- presets --------------------------------- *)
\* The entries of the two built-in configuration texts that the modelled
\* keys touch (keys as written in the text).
PresetSeq(l) == ListV([i \in DOMAIN l |-> Tok(l[i])])

default_config ==
    MkMap(<< <<Hyphen(k_reads_per_chunk), IntV(10000000)>>,
             <<Hyphen(k_gcsa_opts), PresetSeq(<<"-X", "3", "-Z", "3000">>)>>,
             <<Hyphen(Opt("map")), ListV(<<>>)>>,
             <<<<"chunk", "_", "context">>, IntV(50)>>,
             <<<<"genotype">>, BoolV(FALSE)>> >>)

whole_genome_config ==
    MkMap(<< <<Hyphen(k_reads_per_chunk), IntV(50000000)>>,
             <<Hyphen(k_gcsa_opts), PresetSeq(<<"-X", "3", "-Z", "3000">>)>>,
             <<Hyphen(Opt("map")), ListV(<<>>)>>,
             <<<<"chunk", "_", "context">>, IntV(50)>>,
             <<<<"genotype">>, BoolV(FALSE)>> >>)

generate_config(whole_genome) ==
    IF whole_genome THEN whole_genome_config ELSE default_config

(* --------------------- apply_config_file_args --------------------------- *)
NoMap == <<>>

\* for x_opts in [...]: a str value becomes make_opts_list of it
NormalizeSeqOpts_Skip(a) == a

NormalizeSeqOpts_AlsoLists(a) ==
    [k \in DOMAIN a |->
        IF k \in SeqOpts /\ a[k].kind = "str"
        THEN ListV(make_opts_list(a[k].text))
        ELSE IF k \in SeqOpts /\ a[k].kind = "list"
             THEN ListV(DelFlag(DelFlag(a[k].toks, ThreadFlags[1]), ThreadFlags[2]))
             ELSE a[k]]

NormalizeSeqOpts(a) ==
    [k \in DOMAIN a |->
        IF k \in SeqOpts /\ a[k].kind = "str"
        THEN ListV(make_opts_list(a[k].text))
        ELSE a[k]]

\* the same for each str element of more_mpmap_opts, in place
NormalizeMore(a, h) ==
    IF k_more_mpmap_opts \in DOMAIN a /\ Truthy(a[k_more_mpmap_opts], h)
    THEN [h EXCEPT ![a[k_more_mpmap_opts].num] =
             [i \in DOMAIN @ |->
                 IF @[i].kind = "str"
                 THEN ListV(make_opts_list(@[i].text))
                 ELSE @[i]]]
    ELSE h

wg_config(a) ==
    k_whole_genome_config \in DOMAIN a /\ Truthy(a[k_whole_genome_config], <<>>)

\* require(expr, message) of toil_vg.vg_common: fails unless expr holds
require(expr, err) == IF expr THEN "ok" ELSE err

Loaded(e, d) == [err |-> e, doc |-> d]

\* The configuration text that is going to be parsed, or the failure.
LoadConfig_ExistsFirst(a, f) ==
    IF k_config \notin DOMAIN a \/ a[k_config].kind = "none"
    THEN Loaded("ok", generate_config(wg_config(a)))
    ELSE IF require(f.exists, "notfound") # "ok"
         THEN Loaded("notfound", NoMap)
         ELSE IF wg_config(a)
              THEN Loaded("conflict", NoMap)
              ELSE Loaded("ok", f.doc)

LoadConfig(a, f) ==
    IF k_config \notin DOMAIN a \/ a[k_config].kind = "none"
    THEN Loaded("ok", generate_config(wg_config(a)))
    ELSE IF wg_config(a)
         THEN Loaded("conflict", NoMap)
         ELSE IF require(f.exists, "notfound") # "ok"
              THEN Loaded("notfound", NoMap)
              ELSE Loaded("ok", f.doc)

\* {x.replace('-', '_'): y for x, y in yaml.load(config).iteritems()}
ParseConfig_NoReplace(doc) == doc

ParseConfig(doc) ==
    [k \in {replace(x, "-", "_") : x \in DOMAIN doc} |->
        doc[CHOOSE x \in DOMAIN doc : replace(x, "-", "_") = k]]

\* if 'prune_opts_2' in parsed_config
HasDeprecated_Never(parsed_config) == FALSE

HasDeprecated(parsed_config) == k_prune_opts_2 \in DOMAIN parsed_config

\* options = Namespace(**parsed_config), then the loop over args.__dict__
Merge_NotNone(a, parsed_config, h) ==
    [k \in DOMAIN parsed_config \cup DOMAIN a |->
        IF k \in DOMAIN a /\ (a[k].kind # "none" \/ k \notin DOMAIN parsed_config)
        THEN a[k]
        ELSE parsed_config[k]]

Merge(a, parsed_config, h) ==
    [k \in DOMAIN parsed_config \cup DOMAIN a |->
        IF k \in DOMAIN a /\ (Truthy(a[k], h) \/ k \notin DOMAIN parsed_config)
        THEN a[k]
        ELSE parsed_config[k]]

\* A mapping as an observer sees it: each value with the current content of
\* the list object it refers to.
Deref(m, h) ==
    [k \in DOMAIN m |->
        <<m[k], IF m[k].kind = "ref" THEN h[m[k].num] ELSE <<>> >>]

apply_config_file_args ==
    /\ mpc = "idle"
    /\ ncalls < MaxCalls
    /\ LET a1 == NormalizeSeqOpts(args)
           h1 == NormalizeMore(a1, heap)
           ld == LoadConfig(a1, fs)
           parsed_config == ParseConfig(ld.doc)
           out == IF ld.err # "ok" THEN ld.err
                  ELSE IF HasDeprecated(parsed_config) THEN "deprecated"
                  ELSE "ok"
           opts == IF out = "ok" THEN Merge(a1, parsed_config, h1) ELSE NoMap
       IN /\ args' = a1
          /\ heap' = h1
          /\ outcome' = out
          /\ base' = IF ld.err = "ok" THEN parsed_config ELSE NoMap
          /\ options' = opts
          /\ results' = Append(results, [outcome |-> out, options |-> opts,
                                         snapshot |-> Deref(opts, h1)])
    /\ ncalls' = ncalls + 1
    /\ UNCHANGED <<fs, args0, heap0, x_opts, opts_list, mpc>>

(* ------------------------------ inputs --------------------------------- *)
RECURSIVE SeqsUpTo(_, _)
SeqsUpTo(S, n) ==
    IF n = 0 THEN {<<>>}
    ELSE LET shorter == SeqsUpTo(S, n - 1)
         IN shorter \cup {Append(s, x) : s \in {t \in shorter : Len(t) = n - 1}, x \in S}

CliItems == {" ", "-t", "-X"}
CliTexts == SeqsUpTo(CliItems, MaxCliLen)
StructuredLists == {<<>>,
                    <<Tok("--threads"), Tok("8"), Tok("-X"), Tok("3")>>,
                    <<Tok("-t"), Tok("4"), Tok("-t"), Tok("8")>>}
MoreElems == {StrV(<<"-X", " ", "-t">>), ListV(<<Tok("-X")>>)}
MoreLists == SeqsUpTo(MoreElems, MaxMore)

ConfigChoices == {Absent, None, StrV(<<"conf.yaml">>)}
WgChoices == {Absent, BoolV(FALSE), BoolV(TRUE)}
SeqOptChoices == {Absent, None} \cup {StrV(t) : t \in CliTexts}
                     \cup {ListV(l) : l \in StructuredLists}
ReadsChoices == {Absent, IntV(0), IntV(20000000)}
PruneChoices == {Absent, ListV(<<Tok("-X")>>)}
MoreChoices == {"absent", "none", "list"}

DocSeqChoices == {Absent,
                  ListV(<<Tok("--threads"), Tok("8"), Tok("-X"), Tok("3")>>)}
DocReadsChoices == {Absent, IntV(10000000)}
DocPruneKeys == {Hyphen(k_prune_opts_2), k_prune_opts_2}
Docs ==
    {MkMap(<< <<Hyphen(k_gcsa_opts), g>>, <<Hyphen(k_reads_per_chunk), r>>,
              <<pk, p>> >>) :
        g \in DocSeqChoices, r \in DocReadsChoices,
        pk \in DocPruneKeys, p \in PruneChoices}

Init ==
    /\ \E c \in ConfigChoices, w \in WgChoices, g \in SeqOptChoices,
          r \in ReadsChoices, p \in PruneChoices, m \in MoreChoices :
          args = MkMap(<< <<k_config, c>>, <<k_whole_genome_config, w>>,
                          <<k_gcsa_opts, g>>, <<k_reads_per_chunk, r>>,
                          <<k_prune_opts_2, p>>,
                          <<k_more_mpmap_opts,
                            CASE m = "absent" -> Absent
                              [] m = "none" -> None
                              [] OTHER -> Ref(1)>> >>)
    /\ IF k_more_mpmap_opts \in DOMAIN args /\ args[k_more_mpmap_opts].kind = "ref"
       THEN \E l \in MoreLists : heap = <<l>>
       ELSE heap = <<>>
    /\ IF k_config \in DOMAIN args /\ args[k_config].kind = "str"
       THEN \/ fs = [exists |-> FALSE, doc |-> NoMap]
            \/ \E d \in Docs : fs = [exists |-> TRUE, doc |-> d]
       ELSE fs = [exists |-> FALSE, doc |-> NoMap]
    /\ ncalls = 0
    /\ outcome = "none"
    /\ base = NoMap
    /\ options = NoMap
    /\ results = <<>>
    /\ args0 = args
    /\ heap0 = heap
    /\ x_opts = <<>>
    /\ opts_list = <<>>
    /\ mpc = "idle"

Next == apply_config_file_args

Spec == Init /\ [][Next]_vars

(* ------------------- make_opts_list on its own ------------------------- *)
Items == {" ", "\t", "\n", "-t", "--threads", "4"}

CallMakeOptsList ==
    /\ mpc = "start"
    /\ opts_list' = make_opts_list(x_opts)
    /\ mpc' = "done"
    /\ UNCHANGED <<x_opts, resolverVars>>

InitOpts ==
    /\ x_opts \in SeqsUpTo(Items, MaxLen)
    /\ opts_list = <<>>
    /\ mpc = "start"
    /\ args = NoMap /\ heap = <<>> /\ fs = [exists |-> FALSE, doc |-> NoMap]
    /\ ncalls = 0 /\ outcome = "none" /\ base = NoMap /\ options = NoMap
    /\ results = <<>> /\ args0 = NoMap /\ heap0 = <<>>

NextOpts == CallMakeOptsList

SpecOpts == InitOpts /\ [][NextOpts]_vars

(* ------------------------------ claims --------------------------------- *)
IsThreadFlag(tok) == \E i \in DOMAIN ThreadFlags : tok = ThreadFlags[i]
NoThreadFlag(l) == \A i \in DOMAIN l : ~IsThreadFlag(l[i])
UserDocLoaded ==
    k_config \in DOMAIN args0 /\ args0[k_config].kind = "str" /\ fs.exists
WgSet ==
    k_whole_genome_config \in DOMAIN args0
        /\ args0[k_whole_genome_config] = BoolV(TRUE)

C2_ConflictFirst ==
    (ncalls > 0 /\ k_config \in DOMAIN args0 /\ args0[k_config].kind # "none"
        /\ WgSet) =>
        /\ outcome = "conflict"
        /\ options = NoMap
        /\ \A i \in DOMAIN results : results[i].outcome = "conflict"

C2_Witness ==
    /\ ncalls > 0 /\ WgSet /\ k_config \in DOMAIN args0
    /\ ~fs.exists
    /\ outcome = "conflict"

\* C3: loading an existing user document (whole-genome flag not set) that
\* holds the deprecated key, spelled prune-opts-2 or prune_opts_2, fails
\* with the deprecated-option error and returns no options.
C3_DeprecatedRejected ==
    (ncalls > 0 /\ UserDocLoaded /\ ~WgSet
        /\ (Hyphen(k_prune_opts_2) \in DOMAIN fs.doc
               \/ k_prune_opts_2 \in DOMAIN fs.doc)) =>
        /\ outcome = "deprecated"
        /\ options = NoMap

C3_Witness ==
    /\ ncalls > 0 /\ UserDocLoaded /\ ~WgSet
    /\ Hyphen(k_prune_opts_2) \in DOMAIN fs.doc
    /\ Hyphen(k_gcsa_opts) \in DOMAIN fs.doc
    /\ k_gcsa_opts \in DOMAIN args0
    /\ outcome = "deprecated"

\* C4 (as claimed): no returned configuration has the key prune_opts_2,
\* also when the CLI mapping carries that key.
C4_NoDeprecatedKey ==
    outcome = "ok" => k_prune_opts_2 \notin DOMAIN options

\* C4 (amended): a returned configuration never takes prune_opts_2 (or
\* prune-opts-2) from the base document or preset; it has the key exactly
\* when the CLI mapping carries it, with the CLI's value.
C4_DeprecatedOnlyFromCli ==
    outcome = "ok" =>
        /\ k_prune_opts_2 \notin DOMAIN base
        /\ Hyphen(k_prune_opts_2) \notin DOMAIN options
        /\ k_prune_opts_2 \in DOMAIN options <=> k_prune_opts_2 \in DOMAIN args0
        /\ k_prune_opts_2 \in DOMAIN options =>
               options[k_prune_opts_2] = args0[k_prune_opts_2]

C4_Witness ==
    /\ outcome = "ok" /\ UserDocLoaded
    /\ k_prune_opts_2 \in DOMAIN args0
    /\ k_prune_opts_2 \in DOMAIN options

\* C5: the list returned by make_opts_list holds no -t and no --threads
\* token, whatever the text.
C5_NoThreadFlagLeft ==
    mpc = "done" => NoThreadFlag(opts_list)

\* C6 (as claimed): in a returned configuration every sequence-typed option
\* that is a list has the thread flags stripped, whether it came from the
\* base or from the CLI, as text or as a list.
C6_AllStripped ==
    outcome = "ok" =>
        \A k \in SeqOpts \cap DOMAIN options :
            options[k].kind = "list" => NoThreadFlag(options[k].toks)

\* C6 (amended): in a returned configuration a sequence-typed option that
\* the CLI gave as text and that the merge takes from the CLI holds
\* make_opts_list of that text; a value taken from the base document or
\* preset, or given on the CLI as a list, is passed through unchanged.
C6_OnlyCliTextNormalized ==
    outcome = "ok" =>
        \A k \in SeqOpts \cap DOMAIN options :
            IF k \in DOMAIN args0 /\ args0[k].kind = "str"
            THEN LET l == make_opts_list(args0[k].text)
                 IN options[k] = IF l # <<>> \/ k \notin DOMAIN base
                                 THEN ListV(l) ELSE base[k]
            ELSE IF k \in DOMAIN args0
                      /\ (k \notin DOMAIN base
                             \/ (args0[k].kind = "list" /\ args0[k].toks # <<>>))
                 THEN options[k] = args0[k]
                 ELSE options[k] = base[k]

C6_Witness ==
    /\ outcome = "ok"
    /\ k_gcsa_opts \in DOMAIN args0 /\ k_gcsa_opts \in DOMAIN base
    /\ args0[k_gcsa_opts] = StrV(<<"-t", " ", "-t">>)
    /\ options[k_gcsa_opts] = base[k_gcsa_opts]
    /\ ~NoThreadFlag(options[k_gcsa_opts].toks)

\* The maximal runs of items of s that are not in seps, in order.
RECURSIVE Runs(_, _)
Runs(s, seps) ==
    IF s = <<>> THEN <<>>
    ELSE IF Head(s) \in seps THEN Runs(Tail(s), seps)
    ELSE LET n == CHOOSE m \in 1..Len(s) :
                      /\ \A i \in 1..m : s[i] \notin seps
                      /\ m = Len(s) \/ s[m + 1] \in seps
         IN <<SubSeq(s, 1, n)>> \o Runs(SubSeq(s, n + 1, Len(s)), seps)

Whitespace == {" ", "\t", "\n"}
NoThreadItem(s) == \A i \in DOMAIN s : s[i] \notin {"-t", "--threads"}

\* C7 (as claimed): for text without a thread flag, make_opts_list returns
\* the whitespace-separated tokens (spaces, tabs, newlines) in order, none
\* empty and none holding a whitespace character.
C7_WhitespaceTokens ==
    (mpc = "done" /\ NoThreadItem(x_opts)) =>
        /\ opts_list = Runs(x_opts, Whitespace)
        /\ \A i \in DOMAIN opts_list :
               /\ opts_list[i] # <<>>
               /\ \A j \in DOMAIN opts_list[i] : opts_list[i][j] \notin Whitespace

\* C7 (amended): for text without a thread flag, make_opts_list returns the
\* tokens separated by the space character only, in order: none is empty
\* and none holds a space; tabs and newlines stay inside the tokens.
C7_SpaceTokens ==
    (mpc = "done" /\ NoThreadItem(x_opts)) =>
        /\ opts_list = Runs(x_opts, {" "})
        /\ \A i \in DOMAIN opts_list :
               /\ opts_list[i] # <<>>
               /\ \A j \in DOMAIN opts_list[i] : opts_list[i][j] # " "

C7_Witness ==
    /\ mpc = "done"
    /\ x_opts = <<" ", "4", "\t", " ", "4">>
    /\ opts_list = <<<<"4", "\t">>, <<"4">>>>

\* C8 (as claimed): after a call, successful or failed, the CLI mapping and
\* the lists it holds equal what they were before the first call.
C8_InputsUnchanged ==
    ncalls > 0 => Deref(args, heap) = Deref(args0, heap0)

\* C8 (amended): after a call, successful or failed, the CLI mapping has
\* the same keys, and the same values except that each sequence-typed option
\* given as text holds make_opts_list of it and each text element of a
\* non-empty more_mpmap_opts is replaced in place by make_opts_list of it.
C8_OnlyNormalizedInPlace ==
    ncalls > 0 =>
        /\ DOMAIN args = DOMAIN args0
        /\ \A k \in DOMAIN args0 :
               args[k] = IF k \in SeqOpts /\ args0[k].kind = "str"
                         THEN ListV(make_opts_list(args0[k].text))
                         ELSE args0[k]
        /\ DOMAIN heap = DOMAIN heap0
        /\ \A a \in DOMAIN heap0 :
               /\ DOMAIN heap[a] = DOMAIN heap0[a]
               /\ \A i \in DOMAIN heap0[a] :
                      heap[a][i] = IF heap0[a][i].kind = "str"
                                   THEN ListV(make_opts_list(heap0[a][i].text))
                                   ELSE heap0[a][i]

C8_Witness ==
    /\ outcome = "conflict"
    /\ k_gcsa_opts \in DOMAIN args0 /\ args0[k_gcsa_opts].kind = "str"
    /\ args[k_gcsa_opts].kind = "list"
    /\ heap # heap0

\* C9: every call in a sequence of calls on the same CLI mapping and the
\* same document ends the same way with an equal result, and a result
\* already returned is not changed by a later call.
C9_Idempotent ==
    \A i \in DOMAIN results :
        /\ Deref(results[i].options, heap) = results[i].snapshot
        /\ \A j \in DOMAIN results :
               /\ results[i].outcome = results[j].outcome
               /\ results[i].snapshot = results[j].snapshot

C9_Witness ==
    /\ Len(results) >= 2
    /\ outcome = "ok"
    /\ args # args0 /\ heap # heap0
    /\ k_more_mpmap_opts \in DOMAIN options
    /\ options[k_more_mpmap_opts].kind = "ref"

====
